---- MODULE Spec2Model ----
(***************************************************************************)
(* Model of the download -> transcribe -> process pipeline as implemented  *)
(* by the scripts and Streamlit apps of transcribe-with-ai.                *)
(*                                                                         *)
(* One program (app) is chosen in Init.  A Streamlit app executes its      *)
(* script once per user interaction (main_rerun ... end_run); a command    *)
(* line script runs once (cli_start ... exited / crashed).  Every blocking *)
(* call to an external service (extractor, remote API, speech model,       *)
(* command-line tool) is a state of its own: pc names the call in progress *)
(* and the next action is its completion with every outcome the service    *)
(* can produce, followed by the caller's code up to the next call.         *)
(***************************************************************************)
EXTENDS Integers, Sequences, FiniteSets, TLC

\* ---------------------------------------------------------------- bounds
MaxRuns == 2      \* script executions of a Streamlit session
MaxLen == 1       \* longest transcript text returned by a backend
MaxSegs == 2      \* most segments emitted by the local speech model

\* ------------------------------------------------------------ text values
Chars == {" ", "a"}

\* Python None and the marker of an exception leaving a function
None == <<"None">>
Raise == <<"Raise">>

Texts == UNION {[1..n -> Chars] : n \in 0..MaxLen}

\* standard output / response text of the text-processing backend
Outs == {<<>>, <<" ">>, <<"a">>, <<" ", "a", " ">>}

RECURSIVE LStrip(_)
LStrip(s) == IF s = <<>> THEN <<>>
             ELSE IF Head(s) = " " THEN LStrip(Tail(s)) ELSE s

RECURSIVE RStrip(_)
RStrip(s) == IF s = <<>> THEN <<>>
             ELSE IF s[Len(s)] = " " THEN RStrip(SubSeq(s, 1, Len(s) - 1)) ELSE s

\* str.strip()
Strip(s) == RStrip(LStrip(s))

\* Python truthiness of an optional string: None and "" are falsy
Truthy(x) == x # None /\ x # <<>>

\* a text that carries no speech: empty or whitespace only
Blank(x) == x # None /\ Strip(x) = <<>>

\* --------------------------------------------------------------- programs
StreamlitGemini == {"gemini_app", "gemini_claude_app"}
GeminiVariants == StreamlitGemini \cup {"transcribe_with_gemini"}
\* apps that keep the audio in a temporary file while it is transcribed
TempFileApps == {"transcribe_app", "transcribe_with_claude"}
StreamlitApps == StreamlitGemini \cup {"youtube_transcribe_app", "simple_download_app"}
                   \cup TempFileApps
WhisperScripts == {"quick_transcribe", "local_transcribe", "transcribe_and_summarize",
                   "transcribe_full"}
CliScripts == {"transcribe_with_gemini"} \cup WhisperScripts
Apps == StreamlitApps \cup CliScripts

Stages == {"fetch", "transcribe", "process"}
\* sidebar choices (task, target language) the executions are run with
Directives == {<<"summarize", "English">>, <<"translate", "Thai">>}

\* outcome of the backend call of the text-processing stage
NoResult == [kind |-> "none", rc |-> 0, out |-> <<>>]
Outcome(k) == [kind |-> k, rc |-> 0, out |-> <<>>]
ExitOutcomes == {[kind |-> "exit", rc |-> c, out |-> o] : c \in {0, 1}, o \in Outs}
\* genai generate_content: raises, or gives a response with some text
ApiOutcomes == {Outcome("api_error")} \cup {[kind |-> "api_text", rc |-> 0, out |-> o] : o \in Outs}
\* subprocess.run without timeout: executable missing, or an exit status
CliOutcomes == {Outcome("notfound")} \cup ExitOutcomes
\* subprocess.run(..., timeout=30) can also raise TimeoutExpired
CliTimeoutOutcomes == CliOutcomes \cup {Outcome("timeout")}

EmptySession == [transcript |-> None, processed_text |-> None, task |-> "none",
                 target_language |-> "none", filename |-> "none",
                 last_download |-> "none"]

\* nothing emitted yet by transcribe_with_gemini.py
NoOutput == [transcript |-> None, processed |-> None]

EmptyDisk == [transcript_file |-> None, summary_file |-> None, output_file |-> None,
              temp_transcription |-> FALSE]

VARIABLES
  app,            \* the program being run
  pc,             \* position of the script execution
  flow,           \* "upload" or "youtube" branch of the current execution
  runs,           \* script executions started so far
  task,           \* sidebar / --task value of the current execution
  target_language,
  audio_path,     \* extension of the file returned by the fetcher ("none" = none)
  temp_path,      \* temporary copy of the uploaded audio (0 = none)
  tmpFiles,       \* temporary files that exist on disk
  nextTmp,        \* next unused temporary file name
  remote_file,    \* handle returned by genai.upload_file (0 = none)
  remoteFiles,    \* files held by the remote service
  response,       \* response of generate_content in transcribe_with_gemini
  transcript,     \* value returned by the transcription call
  result,         \* what the text-processing backend did
  processed_text, \* value returned by the text-processing function
  session_state,  \* st.session_state
  disk,           \* files written by the run
  output,         \* output_content of transcribe_with_gemini.py
  shown,          \* messages shown to the user in this execution
  status,         \* status_text placeholder
  progress,       \* last value sent to the progress bar, in percent
  calls,          \* invocations of each stage in this execution
  rets,           \* how each stage returned in this execution
  exit_code,      \* process exit status of a command-line script
  GEMINI_API_KEY, \* whether the environment holds the API key
  configured,     \* genai.configure has run
  audio_files,    \* fetched audio files that exist on disk
  call,           \* a function applied on its own: name, arguments, value
  fetchers,       \* fetcher invocations running side by side
  transcribe_file, \* st.session_state['transcribe_file'] ("none" = key absent)
  start_button,   \* "Start Transcription" is on the page of the last execution
  workers         \* invocations of local_transcribe.process_with_claude side by side

vars == <<app, pc, flow, runs, task, target_language, audio_path, temp_path, tmpFiles, nextTmp,
          remote_file, remoteFiles, response, transcript, result, processed_text,
          session_state, disk, output, shown, status, progress, calls, rets, exit_code,
          GEMINI_API_KEY, configured, audio_files, call, fetchers, transcribe_file,
          start_button, workers>>

MaxWorkers == 2
\* where an invocation of process_with_claude is, and what the tool did
NoWorkers == [i \in 1..MaxWorkers |-> [at |-> "start", tool |-> "none"]]

\* state of the "Previous Files" tab of youtube_transcribe_app
tab2 == <<transcribe_file, start_button>>

\* state used only by the specifications of single functions and of
\* side-by-side fetchers
aux == <<call, fetchers>>
NoCall == [fn |-> "none"]
NoFetchers == <<>>

NoCalls == [s \in Stages |-> 0]
NoRets == [s \in Stages |-> "none"]

Init ==
  /\ app \in Apps
  /\ pc = IF app \in StreamlitApps THEN "idle" ELSE "start"
  /\ flow = "none"
  /\ runs = 0
  /\ task = "none"
  /\ target_language = "none"
  /\ audio_path = "none"
  /\ temp_path = 0
  /\ tmpFiles = {}
  /\ nextTmp = 1
  /\ remote_file = 0
  /\ remoteFiles = {}
  /\ response = None
  /\ transcript = None
  /\ result = NoResult
  /\ processed_text = None
  /\ session_state = EmptySession
  /\ disk = EmptyDisk
  /\ output = NoOutput
  /\ shown = {}
  /\ status = "none"
  /\ progress = 0
  /\ calls = NoCalls
  /\ rets = NoRets
  /\ exit_code = -1
  /\ GEMINI_API_KEY \in BOOLEAN
  /\ configured = FALSE
  /\ audio_files = {}
  /\ call = NoCall
  /\ fetchers = NoFetchers
  /\ transcribe_file = "none"
  /\ start_button = FALSE
  /\ workers = NoWorkers

Call(s) == calls' = [calls EXCEPT ![s] = @ + 1]
Return(s, how) == rets' = [rets EXCEPT ![s] = how]

\* ------------------------------------------------------------------------
\* module level of the Gemini programs: "if not GEMINI_API_KEY:" stops the
\* program (st.stop() / sys.exit(1)) before genai.configure and main()
\* ------------------------------------------------------------------------
\* the check left out
key_check_missing == TRUE

\* the program gets past its module level
key_check == app \in GeminiVariants => GEMINI_API_KEY

startup_stop ==
  /\ app \in GeminiVariants
  /\ pc \in {"idle", "start"}
  /\ runs < MaxRuns
  /\ ~key_check
  /\ runs' = runs + 1
  /\ shown' = shown \cup {"GEMINI_API_KEY not found"}
  /\ IF app \in StreamlitGemini
       THEN /\ pc' = "finished"
            /\ UNCHANGED exit_code
       ELSE /\ pc' = "exited"
            /\ exit_code' = 1
  /\ UNCHANGED <<app, workers, tab2, aux, GEMINI_API_KEY, configured, audio_files, flow, task,
                 target_language, audio_path, temp_path, tmpFiles, nextTmp, remote_file,
                 remoteFiles, response, transcript, result, processed_text, session_state,
                 disk, output, status, progress, calls, rets>>

\* ------------------------------------------------------------------------
\* gemini_app.py / gemini_claude_app.py : main(), one script execution up to
\* the first blocking call.  uploaded: a file sits in the uploader; url: the
\* YouTube field is filled; btn: the button whose click caused this execution.
\* ------------------------------------------------------------------------
main_rerun(uploaded, url, btn, d) ==
  /\ app \in StreamlitGemini
  /\ pc = "idle"
  /\ runs < MaxRuns
  /\ key_check
  /\ configured' = TRUE                    \* genai.configure(api_key=...)
  /\ btn = "upload_process" => uploaded
  /\ btn = "youtube_process" => url
  /\ runs' = runs + 1
  /\ task' = d[1]
  /\ target_language' = d[2]
  \* the uploaded file is persisted on every execution that sees it
  /\ IF uploaded
       THEN /\ temp_path' = nextTmp
            /\ tmpFiles' = tmpFiles \cup {nextTmp}
            /\ nextTmp' = nextTmp + 1
       ELSE UNCHANGED <<temp_path, tmpFiles, nextTmp>>
  /\ IF btn = "upload_process"
       THEN /\ flow' = "upload"
            /\ status' = "Transcribing audio with Gemini API..."
            /\ progress' = 25
            /\ pc' = "t_upload"
            /\ Call("transcribe")
       ELSE IF btn = "youtube_process"
       THEN /\ flow' = "youtube"
            /\ status' = "Downloading YouTube audio..."
            /\ progress' = 0
            /\ pc' = "fetch"
            /\ Call("fetch")
       ELSE /\ flow' = "none"
            /\ pc' = "finished"
            /\ UNCHANGED <<status, progress, calls>>
  /\ UNCHANGED <<app, workers, tab2, aux, GEMINI_API_KEY, audio_files, audio_path, remote_file,
                 remoteFiles, response, transcript, result,
                 processed_text, session_state, disk, output, shown, rets, exit_code>>

\* ------------------------------------------------------------------------
\* transcribe_with_gemini(audio_path): upload, generate, delete, read text.
\* Any exception is caught, reported, and None is returned.
\* ------------------------------------------------------------------------
transcribe_failed ==
  /\ shown' = shown \cup {"Error transcribing with Gemini"}
  /\ transcript' = None
  /\ Return("transcribe", "fail")
  /\ pc' = "t_ret"

upload_file ==
  /\ pc = "t_upload"
  /\ \/ /\ remote_file' = 1
        /\ remoteFiles' = remoteFiles \cup {1}
        /\ pc' = "t_generate"
        /\ UNCHANGED <<shown, transcript, rets>>
     \/ /\ transcribe_failed
        /\ UNCHANGED <<remote_file, remoteFiles>>
  /\ UNCHANGED <<app, workers, tab2, aux, GEMINI_API_KEY, configured, audio_files, flow, runs, task, target_language, audio_path, temp_path, tmpFiles, nextTmp,
                 response, result, processed_text, session_state, disk, output,
                 status, progress, calls, exit_code>>

generate_content ==
  /\ pc = "t_generate"
  /\ \/ /\ \E r \in Texts \cup {Raise} : response' = r   \* Raise: response.text has no text
        /\ pc' = "t_delete"
        /\ UNCHANGED <<shown, transcript, rets>>
     \/ /\ transcribe_failed
        /\ UNCHANGED response
  /\ UNCHANGED <<app, workers, tab2, aux, GEMINI_API_KEY, configured, audio_files, flow, runs, task, target_language, audio_path, temp_path, tmpFiles, nextTmp,
                 remote_file, remoteFiles, result, processed_text, session_state, disk,
                 output, status, progress, calls, exit_code>>

delete_file ==
  /\ pc = "t_delete"
  /\ remoteFiles' = remoteFiles \ {remote_file}
  /\ IF response = Raise
       THEN transcribe_failed
       ELSE /\ transcript' = response
            /\ Return("transcribe", "ok")
            /\ pc' = "t_ret"
            /\ UNCHANGED shown
  /\ UNCHANGED <<app, workers, tab2, aux, GEMINI_API_KEY, configured, audio_files, flow, runs, task, target_language, audio_path, temp_path, tmpFiles, nextTmp,
                 remote_file, response, result, processed_text, session_state, disk,
                 output, status, progress, calls, exit_code>>

transcribe_with_gemini == upload_file \/ generate_content \/ delete_file

\* ------------------------------------------------------------------------
\* end of a script execution: the locals of main() are gone, the session
\* state and the file system stay
\* ------------------------------------------------------------------------
\* the session state lost with the locals
end_run_clears_session ==
  /\ app \in StreamlitApps
  /\ pc = "finished"
  /\ pc' = "idle"
  /\ flow' = "none"
  /\ task' = "none"
  /\ target_language' = "none"
  /\ audio_path' = "none"
  /\ temp_path' = 0
  /\ remote_file' = 0
  /\ response' = None
  /\ transcript' = None
  /\ result' = NoResult
  /\ processed_text' = None
  /\ shown' = {}
  /\ status' = "none"
  /\ progress' = 0
  /\ calls' = NoCalls
  /\ rets' = NoRets
  /\ session_state' = EmptySession
  /\ call' = NoCall
  /\ UNCHANGED <<app, workers, tab2, fetchers, GEMINI_API_KEY, configured, audio_files, runs, tmpFiles, nextTmp, remoteFiles, disk,
                 output, exit_code>>

end_run ==
  /\ app \in StreamlitApps
  /\ pc = "finished"
  /\ pc' = "idle"
  /\ flow' = "none"
  /\ task' = "none"
  /\ target_language' = "none"
  /\ audio_path' = "none"
  /\ temp_path' = 0
  /\ remote_file' = 0
  /\ response' = None
  /\ transcript' = None
  /\ result' = NoResult
  /\ processed_text' = None
  /\ shown' = {}
  /\ status' = "none"
  /\ progress' = 0
  /\ calls' = NoCalls
  /\ rets' = NoRets
  /\ call' = NoCall
  /\ UNCHANGED <<app, workers, tab2, fetchers, GEMINI_API_KEY, configured, audio_files, runs, tmpFiles, nextTmp, remoteFiles, session_state, disk,
                 output, exit_code>>


\* ------------------------------------------------------------------------
\* download_youtube_audio (gemini_app, gemini_claude_app) and download_audio
\* (youtube_transcribe_app): the same function body.  The extractor either
\* raises, writes nothing, or writes a file whose extension may differ from
\* the one prepare_filename declares.
\* ------------------------------------------------------------------------
Exts == {"webm", "m4a", "opus"}

\* os.path.exists(filename) after the '.webm' -> '.m4a' probe
FetcherFinds(declared, written) ==
  \/ written = declared
  \/ declared = "webm" /\ written = "m4a"

\* a fetch error that is reported but does not end the execution
main_fetch_error_continues ==
  /\ shown' = shown \cup {"Error: fetch"}
  /\ Return("fetch", "fail")
  /\ pc' = IF app \in StreamlitGemini THEN "t_upload" ELSE "t_local"
  /\ Call("transcribe")
  /\ UNCHANGED <<audio_path, status, progress, session_state>>

\* main(): except Exception as e: st.error(...) ends the execution
main_fetch_error ==
  /\ shown' = shown \cup {"Error: fetch"}
  /\ Return("fetch", "fail")
  /\ pc' = "finished"
  /\ UNCHANGED <<audio_path, status, progress, calls, session_state>>

\* the transcription step left out after a successful fetch
main_after_fetch_skips_transcription(file) ==
  /\ audio_path' = file
  /\ Return("fetch", "ok")
  /\ pc' = "process"
  /\ Call("process")
  /\ UNCHANGED <<shown, session_state, status, progress>>

\* main() after the fetcher returned (audio_path, video_title, duration)
main_after_fetch(file) ==
  /\ audio_path' = file
  /\ Return("fetch", "ok")
  /\ IF app \in StreamlitGemini
       THEN /\ status' = "Transcribing audio with Gemini API..."
            /\ progress' = 60
            /\ pc' = "t_upload"
            /\ Call("transcribe")
            /\ UNCHANGED <<shown, session_state>>
       ELSE /\ status' = "none"                        \* status_text.empty()
            /\ progress' = 0                           \* progress_bar.empty()
            /\ shown' = shown \cup {"Downloaded: title"}
            /\ session_state' = [session_state EXCEPT !.last_download = "title"]
            /\ IF flow = "youtube_auto"
                 THEN /\ pc' = "t_local"
                      /\ Call("transcribe")
                 ELSE /\ pc' = "finished"
                      /\ UNCHANGED calls

download_audio ==
  /\ app \in StreamlitGemini \cup {"youtube_transcribe_app"}
  /\ pc = "fetch"
  /\ \E declared \in Exts, written \in Exts \cup {"none", "extract_error"} :
       /\ audio_files' = IF written \in Exts THEN audio_files \cup {written}
                                             ELSE audio_files
       /\ IF written \in Exts /\ FetcherFinds(declared, written)
            THEN main_after_fetch(written)
            ELSE main_fetch_error
  /\ call' = NoCall
  /\ UNCHANGED <<app, workers, tab2, fetchers, GEMINI_API_KEY, configured, flow, runs, task, target_language, temp_path, tmpFiles, nextTmp,
                 remote_file, remoteFiles, response, transcript, result, processed_text,
                 disk, output, exit_code>>

\* "if transcript is not None:" in place of "if transcript:"
main_after_transcribe_not_none ==
  /\ app \in StreamlitGemini
  /\ pc = "t_ret"
  /\ IF transcript # None
       THEN /\ progress' = IF flow = "upload" THEN 75 ELSE 80
            /\ status' = "Transcription completed! Processing..."
            /\ pc' = "process"
            /\ Call("process")
            /\ UNCHANGED <<shown, tmpFiles>>
       ELSE /\ shown' = shown \cup {"Failed to transcribe audio"}
            /\ tmpFiles' = IF flow = "upload" THEN tmpFiles \ {temp_path} ELSE tmpFiles
            /\ pc' = "finished"
            /\ UNCHANGED <<progress, status, calls>>
  /\ UNCHANGED <<app, workers, tab2, aux, GEMINI_API_KEY, configured, audio_files, flow, runs, task, target_language, audio_path, temp_path, nextTmp,
                 remote_file, remoteFiles, response, transcript, result, processed_text,
                 session_state, disk, output, rets, exit_code>>

\* ------------------------------------------------------------------------
\* gemini_app.py / gemini_claude_app.py : main() after transcribe_with_gemini
\* returned: "if transcript:" starts processing, else reports the failure;
\* the upload branch unlinks its temporary file in "finally".
\* ------------------------------------------------------------------------
main_after_transcribe ==
  /\ app \in StreamlitGemini
  /\ pc = "t_ret"
  /\ IF Truthy(transcript)
       THEN /\ progress' = IF flow = "upload" THEN 75 ELSE 80
            /\ status' = "Transcription completed! Processing..."
            /\ pc' = "process"
            /\ Call("process")
            /\ UNCHANGED <<shown, tmpFiles>>
       ELSE /\ shown' = shown \cup {"Failed to transcribe audio"}
            /\ tmpFiles' = IF flow = "upload" THEN tmpFiles \ {temp_path} ELSE tmpFiles
            /\ pc' = "finished"
            /\ UNCHANGED <<progress, status, calls>>
  /\ UNCHANGED <<app, workers, tab2, aux, GEMINI_API_KEY, configured, audio_files, flow, runs, task, target_language, audio_path, temp_path, nextTmp,
                 remote_file, remoteFiles, response, transcript, result, processed_text,
                 session_state, disk, output, rets, exit_code>>

\* gemini_app.process_with_gemini: value returned for a backend outcome
process_with_gemini_value(r) ==
  IF r.kind = "api_text" /\ r.out # <<>> THEN Strip(r.out) ELSE None

\* gemini_claude_app.process_with_claude / transcribe_with_gemini.summarize_with_claude:
\* exit status 0 gives the stripped standard output, everything else None
process_with_claude_value(r) ==
  IF r.kind = "exit" /\ r.rc = 0 THEN Strip(r.out) ELSE None

\* a second attempt after the backend gave nothing
process_returns_retries(r, v, msg) ==
  /\ result' = r
  /\ processed_text' = v
  /\ shown' = IF v = None /\ msg # "none" THEN shown \cup {msg} ELSE shown
  /\ IF v = None /\ calls["process"] < 2
       THEN /\ Call("process")
            /\ pc' = "process"
            /\ UNCHANGED rets
       ELSE /\ Return("process", IF v \in {None, Raise} THEN "fail" ELSE "ok")
            /\ pc' = "p_ret"
            /\ UNCHANGED calls
  /\ UNCHANGED <<app, workers, tab2, aux, GEMINI_API_KEY, configured, audio_files, flow, runs, task, target_language, audio_path, temp_path, tmpFiles,
                 nextTmp, remote_file, remoteFiles, response, transcript, session_state,
                 output, status, progress, exit_code>>

\* the text-processing call of the programs returns
process_returns(r, v, msg) ==
  /\ result' = r
  /\ processed_text' = v
  /\ shown' = IF v = None /\ msg # "none" THEN shown \cup {msg} ELSE shown
  /\ Return("process", IF v \in {None, Raise} THEN "fail" ELSE "ok")
  /\ pc' = "p_ret"
  /\ UNCHANGED <<app, workers, tab2, aux, GEMINI_API_KEY, configured, audio_files, flow, runs, task, target_language, audio_path, temp_path, tmpFiles,
                 nextTmp, remote_file, remoteFiles, response, transcript, session_state,
                 output, status, progress, calls, exit_code>>

process_with_gemini ==
  /\ app = "gemini_app"
  /\ pc = "process"
  /\ \E r \in ApiOutcomes :
       /\ process_returns(r, process_with_gemini_value(r), "Error processing with Gemini")
       /\ UNCHANGED disk

process_with_claude ==
  /\ app = "gemini_claude_app"
  /\ pc = "process"
  /\ \E r \in CliOutcomes :
       /\ process_returns(r, process_with_claude_value(r), "Error with Claude CLI")
       /\ UNCHANGED disk

\* results stored only when the processing call gave a value
main_store_requires_processed ==
  /\ app \in StreamlitGemini
  /\ pc = "p_ret"
  /\ progress' = 100
  /\ status' = "Processing completed!"
  /\ session_state' = IF processed_text = None THEN session_state
                      ELSE [session_state EXCEPT
                              !.transcript = transcript,
                              !.processed_text = processed_text,
                              !.task = task,
                              !.target_language = target_language,
                              !.filename = flow]
  /\ shown' = IF flow = "youtube" THEN shown \cup {"Processed: title"} ELSE shown
  /\ tmpFiles' = IF flow = "upload" THEN tmpFiles \ {temp_path} ELSE tmpFiles
  /\ pc' = "finished"
  /\ UNCHANGED <<app, workers, tab2, aux, GEMINI_API_KEY, configured, audio_files, flow, runs, task, target_language, audio_path, temp_path, nextTmp,
                 remote_file, remoteFiles, response, transcript, result, processed_text,
                 disk, output, calls, rets, exit_code>>

\* main(): progress 100, store the five result fields, unlink the upload copy
main_store ==
  /\ app \in StreamlitGemini
  /\ pc = "p_ret"
  /\ progress' = 100
  /\ status' = "Processing completed!"
  /\ session_state' = [session_state EXCEPT
                         !.transcript = transcript,
                         !.processed_text = processed_text,
                         !.task = task,
                         !.target_language = target_language,
                         !.filename = flow]
  /\ shown' = IF flow = "youtube" THEN shown \cup {"Processed: title"} ELSE shown
  /\ tmpFiles' = IF flow = "upload" THEN tmpFiles \ {temp_path} ELSE tmpFiles
  /\ pc' = "finished"
  /\ UNCHANGED <<app, workers, tab2, aux, GEMINI_API_KEY, configured, audio_files, flow, runs, task, target_language, audio_path, temp_path, nextTmp,
                 remote_file, remoteFiles, response, transcript, result, processed_text,
                 disk, output, calls, rets, exit_code>>


\* ------------------------------------------------------------------------
\* command-line scripts: main() up to the transcription call.  exists is
\* os.path.exists(audio_file); d carries the --task value.
\* ------------------------------------------------------------------------
cli_start(exists, d) ==
  /\ app \in CliScripts
  /\ pc = "start"
  /\ key_check
  /\ configured' = (app \in GeminiVariants)   \* genai.configure(api_key=...)
  /\ runs' = 1
  /\ IF ~exists
       THEN /\ shown' = shown \cup {"Error: file not found"}
            \* sys.exit(1); transcribe_full.main() prints and returns
            /\ exit_code' = IF app = "transcribe_full" THEN 0 ELSE 1
            /\ pc' = "exited"
            /\ UNCHANGED <<task, calls>>
       ELSE /\ task' = d[1]
            /\ pc' = IF app = "transcribe_with_gemini" THEN "t_upload" ELSE "t_local"
            /\ Call("transcribe")
            /\ UNCHANGED <<shown, exit_code>>
  /\ UNCHANGED <<app, workers, tab2, aux, GEMINI_API_KEY, audio_files, flow, target_language,
                 audio_path, temp_path, tmpFiles, nextTmp,
                 remote_file, remoteFiles, response, transcript, result, processed_text,
                 session_state, disk, output, status, progress, rets>>

\* transcribe_with_gemini.py main(): "if not transcript: ... sys.exit(1)"
twg_main_after_transcribe ==
  /\ app = "transcribe_with_gemini"
  /\ pc = "t_ret"
  /\ IF ~Truthy(transcript)
       THEN /\ shown' = shown \cup {"Failed to transcribe audio"}
            /\ exit_code' = 1
            /\ pc' = "exited"
            /\ UNCHANGED calls
       ELSE /\ pc' = "process"
            /\ Call("process")
            /\ UNCHANGED <<shown, exit_code>>
  /\ UNCHANGED <<app, workers, tab2, aux, GEMINI_API_KEY, configured, audio_files, flow, runs, task, target_language, audio_path, temp_path, tmpFiles,
                 nextTmp, remote_file, remoteFiles, response, transcript, result,
                 processed_text, session_state, disk, output, status, progress, rets>>

\* transcribe_with_gemini.summarize_with_claude
twg_summarize_with_claude ==
  /\ app = "transcribe_with_gemini"
  /\ pc = "process"
  /\ \E r \in CliOutcomes :
       /\ process_returns(r, process_with_claude_value(r), "Error with Claude CLI")
       /\ UNCHANGED disk

\* the fallback left out
twg_no_fallback(p, t) == p

\* "if not processed_text: processed_text = transcript"
twg_fallback(p, t) == IF ~Truthy(p) THEN t ELSE p

\* transcribe_with_gemini.py main(): fall back, build output_content, emit it
twg_main_output ==
  /\ app = "transcribe_with_gemini"
  /\ pc = "p_ret"
  /\ processed_text' = twg_fallback(processed_text, transcript)
  /\ shown' = IF ~Truthy(processed_text)
                THEN shown \cup {"Failed to process transcript with Claude"} ELSE shown
  /\ output' = [transcript |-> transcript, processed |-> processed_text']
  /\ exit_code' = 0
  /\ pc' = "exited"
  /\ UNCHANGED <<app, workers, tab2, aux, GEMINI_API_KEY, configured, audio_files, flow, runs, task, target_language, audio_path, temp_path, tmpFiles,
                 nextTmp, remote_file, remoteFiles, response, transcript, result,
                 session_state, disk, status, progress, calls, rets>>


\* ------------------------------------------------------------------------
\* local speech model (faster-whisper / whisper): the emitted segment texts
\* and how each script concatenates them
\* ------------------------------------------------------------------------
Segments == UNION {[1..n -> Texts] : n \in 0..MaxSegs}

\* " ".join(list)
RECURSIVE JoinSpace(_)
JoinSpace(l) == IF l = <<>> THEN <<>>
                ELSE IF Len(l) = 1 THEN l[1]
                ELSE l[1] \o <<" ">> \o JoinSpace(Tail(l))

\* transcription += segment.text + " "
RECURSIVE ConcatTrailing(_)
ConcatTrailing(l) == IF l = <<>> THEN <<>>
                     ELSE l[1] \o <<" ">> \o ConcatTrailing(Tail(l))

StripAll(l) == [i \in 1..Len(l) |-> Strip(l[i])]

\* value returned by transcribe_audio of each script for the segments emitted
transcribe_audio_value(a, segs) ==
  CASE a \in {"youtube_transcribe_app", "transcribe_full"} -> JoinSpace(StripAll(segs))
    [] a = "quick_transcribe" -> JoinSpace(segs)
    [] a = "transcribe_and_summarize" -> Strip(ConcatTrailing(segs))
    [] OTHER -> IF segs = <<>> THEN <<>> ELSE segs[1]      \* whisper result["text"]

\* an exception that nothing catches ends a script with a traceback
crash ==
  /\ shown' = shown \cup {"Traceback"}
  /\ exit_code' = 1
  /\ pc' = "crashed"

\* transcribe_audio: the model fails to load or to decode (exception), or
\* the segments are collected and the text returned
transcribe_audio ==
  /\ pc = "t_local"
  /\ \/ /\ Return("transcribe", "fail")
        /\ IF app = "youtube_transcribe_app"
             THEN /\ shown' = shown \cup {"Error: transcribe"}   \* main(): except
                  /\ pc' = "finished"
                  /\ UNCHANGED exit_code
             ELSE crash
        /\ UNCHANGED transcript
     \/ /\ \E segs \in Segments : transcript' = transcribe_audio_value(app, segs)
        /\ Return("transcribe", "ok")
        /\ pc' = "t_ret"
        /\ UNCHANGED <<shown, exit_code>>
  /\ UNCHANGED <<app, workers, tab2, aux, GEMINI_API_KEY, configured, audio_files, flow, runs, task, target_language, audio_path, temp_path, tmpFiles,
                 nextTmp, remote_file, remoteFiles, response, result, processed_text,
                 session_state, disk, output, status, progress, calls>>

\* main() of the local-model programs between transcription and processing:
\* write the transcript file (all but local_transcribe), start the tool;
\* local_transcribe.process_with_claude first writes temp_transcription.txt
main_save_transcript ==
  /\ app \in WhisperScripts \cup {"youtube_transcribe_app"}
  /\ pc = "t_ret"
  /\ disk' = IF app = "local_transcribe"
               THEN [disk EXCEPT !.temp_transcription = TRUE]
               ELSE [disk EXCEPT !.transcript_file = transcript]
  /\ shown' = shown \cup {"Transcription"}
  /\ pc' = "process"
  /\ Call("process")
  /\ UNCHANGED <<app, workers, tab2, aux, GEMINI_API_KEY, configured, audio_files, flow, runs, task, target_language, audio_path, temp_path, tmpFiles,
                 nextTmp, remote_file, remoteFiles, response, transcript, result,
                 processed_text, session_state, output, status, progress, rets, exit_code>>

\* youtube_transcribe_app.summarize_with_claude: stdout on exit status 0,
\* None otherwise and on any exception (bare except)
yta_summarize_value(r) ==
  IF r.kind = "exit" /\ r.rc = 0 THEN r.out ELSE None

\* local_transcribe.process_with_claude / transcribe_and_summarize.summarize_with_claude:
\* check=True; only CalledProcessError is caught
checked_run_value(r) ==
  IF r.kind = "exit" THEN (IF r.rc = 0 THEN r.out ELSE None) ELSE Raise

yta_summarize_with_claude ==
  /\ app = "youtube_transcribe_app"
  /\ pc = "process"
  /\ \E r \in CliTimeoutOutcomes :
       /\ process_returns(r, yta_summarize_value(r), "none")
       /\ UNCHANGED disk

lt_process_with_claude ==
  /\ app = "local_transcribe"
  /\ pc = "process"
  /\ \E r \in CliOutcomes :
       /\ process_returns(r, checked_run_value(r), "Error running Claude CLI")
       /\ disk' = [disk EXCEPT !.temp_transcription = FALSE]      \* finally

tas_summarize_with_claude ==
  /\ app = "transcribe_and_summarize"
  /\ pc = "process"
  /\ \E r \in CliOutcomes :
       /\ process_returns(r, checked_run_value(r), "Error running Claude CLI")
       /\ UNCHANGED disk

\* youtube_transcribe_app main(): "if summary:" save it, else warn
yta_main_after_process ==
  /\ app = "youtube_transcribe_app"
  /\ pc = "p_ret"
  /\ IF Truthy(processed_text)
       THEN /\ disk' = [disk EXCEPT !.summary_file = processed_text]
            /\ shown' = shown \cup {"Summary"}
       ELSE /\ shown' = shown \cup {"Claude CLI not available"}
            /\ UNCHANGED disk
  /\ pc' = "finished"
  /\ UNCHANGED <<app, workers, tab2, aux, GEMINI_API_KEY, configured, audio_files, flow, runs, task, target_language, audio_path, temp_path, tmpFiles,
                 nextTmp, remote_file, remoteFiles, response, transcript, result,
                 processed_text, session_state, output, status, progress, calls, rets,
                 exit_code>>

\* local_transcribe / transcribe_and_summarize main() after the tool call:
\* an exception of the call propagates; otherwise the result is printed /
\* saved and local_transcribe writes the raw transcript last
cli_main_end ==
  /\ app \in {"local_transcribe", "transcribe_and_summarize"}
  /\ pc = "p_ret"
  /\ IF processed_text = Raise
       THEN /\ crash
            /\ UNCHANGED disk
       ELSE /\ disk' = [disk EXCEPT
                          !.summary_file = IF app = "transcribe_and_summarize"
                                              /\ Truthy(processed_text)
                                             THEN processed_text ELSE @,
                          !.transcript_file = IF app = "local_transcribe"
                                                THEN transcript ELSE @]
            /\ shown' = IF Truthy(processed_text) THEN shown \cup {"Summary"} ELSE shown
            /\ exit_code' = 0
            /\ pc' = "exited"
  /\ UNCHANGED <<app, workers, tab2, aux, GEMINI_API_KEY, configured, audio_files, flow, runs, task, target_language, audio_path, temp_path, tmpFiles,
                 nextTmp, remote_file, remoteFiles, response, transcript, result,
                 processed_text, session_state, output, status, progress, calls, rets>>

\* quick_transcribe main(): the tool call and its handling are inline
quick_main_summarize ==
  /\ app = "quick_transcribe"
  /\ pc = "process"
  /\ \E r \in CliTimeoutOutcomes :
       /\ result' = r
       /\ IF r.kind = "exit" /\ r.rc = 0
            THEN /\ processed_text' = r.out
                 /\ disk' = [disk EXCEPT !.summary_file = r.out]
                 /\ shown' = shown \cup {"Summary"}
                 /\ Return("process", "ok")
            ELSE /\ shown' = shown \cup
                       {CASE r.kind = "exit" -> "Claude CLI error"
                          [] r.kind = "notfound" -> "Claude CLI not found"
                          [] OTHER -> "Claude took too long to respond"}
                 /\ Return("process", "fail")
                 /\ UNCHANGED <<processed_text, disk>>
  /\ exit_code' = 0
  /\ pc' = "exited"
  /\ UNCHANGED <<app, workers, tab2, aux, GEMINI_API_KEY, configured, audio_files, flow, runs, task, target_language, audio_path, temp_path, tmpFiles,
                 nextTmp, remote_file, remoteFiles, response, transcript, session_state,
                 output, status, progress, calls>>

\* youtube_transcribe_app main(): one script execution up to the download
yta_main_rerun(url, auto, btn) ==
  /\ app = "youtube_transcribe_app"
  /\ pc = "idle"
  /\ runs < MaxRuns
  /\ runs' = runs + 1
  /\ IF btn /\ url
       THEN /\ flow' = IF auto THEN "youtube_auto" ELSE "youtube_only"
            /\ pc' = "fetch"
            /\ Call("fetch")
            /\ UNCHANGED shown
       ELSE /\ shown' = IF btn THEN shown \cup {"Please enter a YouTube URL"} ELSE shown
            /\ pc' = "finished"
            /\ UNCHANGED <<flow, calls>>
  \* tab 2 of this execution: no pending file, so no "Start Transcription"
  /\ start_button' = FALSE
  /\ UNCHANGED <<app, workers, transcribe_file, aux, GEMINI_API_KEY, configured, audio_files, task, target_language, audio_path, temp_path, tmpFiles, nextTmp,
                 remote_file, remoteFiles, response, transcript, result, processed_text,
                 session_state, disk, output, status, progress, rets, exit_code>>


\* ------------------------------------------------------------------------
\* simple_download_app.py: download_audio works inside
\* "with tempfile.TemporaryDirectory()", which removes the directory and the
\* downloaded file when the function returns; main() then opens the path
\* ------------------------------------------------------------------------
\* main(): st.success, then "with open(audio_path, 'rb')" inside the try
sda_main_after_fetch(file, files) ==
  /\ audio_path' = file
  /\ Return("fetch", "ok")
  /\ shown' = shown \cup {"Downloaded: title"}
                    \cup (IF file \in files THEN {"Audio player"} ELSE {"Error: open"})
  /\ pc' = "finished"
  /\ UNCHANGED <<status, progress, calls, session_state>>

sda_download_audio ==
  /\ app = "simple_download_app"
  /\ pc = "fetch"
  /\ \E written \in Exts \cup {"none", "extract_error"} :
       \* every file of the temporary directory is gone after the return
       /\ audio_files' = audio_files
       /\ IF written \in Exts
            THEN sda_main_after_fetch(written, audio_files')
            ELSE main_fetch_error
  /\ call' = NoCall
  /\ UNCHANGED <<app, workers, tab2, fetchers, GEMINI_API_KEY, configured, flow, runs, task, target_language,
                 temp_path, tmpFiles, nextTmp, remote_file, remoteFiles, response,
                 transcript, result, processed_text, disk, output, exit_code>>

\* main() of simple_download_app, transcribe_app: the button starts the fetch
download_main_rerun(url, btn) ==
  /\ app \in {"simple_download_app", "transcribe_app"}
  /\ pc = "idle"
  /\ runs < MaxRuns
  /\ runs' = runs + 1
  /\ IF btn /\ url
       THEN /\ flow' = "youtube"
            /\ pc' = "fetch"
            /\ Call("fetch")
            /\ UNCHANGED shown
       ELSE /\ shown' = IF btn THEN shown \cup {"Please enter a YouTube URL"} ELSE shown
            /\ pc' = "finished"
            /\ UNCHANGED <<flow, calls>>
  /\ UNCHANGED <<app, workers, tab2, aux, GEMINI_API_KEY, configured, audio_files, task, target_language,
                 audio_path, temp_path, tmpFiles, nextTmp, remote_file, remoteFiles,
                 response, transcript, result, processed_text, session_state, disk,
                 output, status, progress, rets, exit_code>>

\* ------------------------------------------------------------------------
\* transcribe_app.transcribe_audio / transcribe_with_claude.transcribe_and_process:
\* the audio is written to a NamedTemporaryFile(delete=False), handed to the
\* model / the local_transcribe.py subprocess, and removed in "finally"
\* ------------------------------------------------------------------------
\* NamedTemporaryFile with the default delete=True: gone when the block closes
write_temp_file_delete_on_close ==
  /\ temp_path' = nextTmp
  /\ tmpFiles' = tmpFiles
  /\ nextTmp' = nextTmp + 1

write_temp_file ==
  /\ temp_path' = nextTmp
  /\ tmpFiles' = tmpFiles \cup {nextTmp}
  /\ nextTmp' = nextTmp + 1

\* transcribe_app.download_audio hands back the bytes read inside the
\* temporary directory; main() reports the title and calls transcribe_audio
ta_download_audio ==
  /\ app = "transcribe_app"
  /\ pc = "fetch"
  /\ \/ /\ Return("fetch", "ok")
        /\ audio_path' = "bytes"
        /\ shown' = shown \cup {"Downloaded: title"}
        /\ write_temp_file
        /\ pc' = "t_tmp"
        /\ Call("transcribe")
     \/ /\ main_fetch_error
        /\ UNCHANGED <<temp_path, tmpFiles, nextTmp>>
  /\ UNCHANGED <<app, workers, tab2, aux, GEMINI_API_KEY, configured, audio_files, flow, runs, task,
                 target_language, remote_file, remoteFiles, response, transcript, result,
                 processed_text, session_state, disk, output, status, progress, exit_code>>

\* transcribe_with_claude main(): the button starts transcribe_and_process
twc_main_rerun(uploaded, btn) ==
  /\ app = "transcribe_with_claude"
  /\ pc = "idle"
  /\ runs < MaxRuns
  /\ btn => uploaded
  /\ runs' = runs + 1
  /\ IF btn
       THEN /\ flow' = "upload"
            /\ write_temp_file
            /\ pc' = "t_tmp"
            /\ Call("transcribe")
       ELSE /\ pc' = "finished"
            /\ UNCHANGED <<flow, temp_path, tmpFiles, nextTmp, calls>>
  /\ UNCHANGED <<app, workers, tab2, aux, GEMINI_API_KEY, configured, audio_files, task, target_language,
                 audio_path, remote_file, remoteFiles, response, transcript, result,
                 processed_text, session_state, disk, output, shown, status, progress,
                 rets, exit_code>>

\* the temporary file removed on the straight-line path only
transcribe_audio_tmp_no_finally ==
  /\ app \in TempFileApps
  /\ pc = "t_tmp"
  /\ \/ /\ Return("transcribe", "fail")
        /\ UNCHANGED tmpFiles
        /\ shown' = shown \cup {"Error: transcribe"}
        /\ UNCHANGED transcript
     \/ /\ \E t \in Texts : transcript' = t
        /\ Return("transcribe", "ok")
        /\ tmpFiles' = tmpFiles \ {temp_path}
        /\ shown' = IF Truthy(transcript') \/ app = "transcribe_app"
                      THEN shown \cup {"Transcription"} ELSE shown
  /\ pc' = "finished"
  /\ UNCHANGED <<app, workers, tab2, aux, GEMINI_API_KEY, configured, audio_files, flow, runs, task,
                 target_language, audio_path, temp_path, nextTmp, remote_file, remoteFiles,
                 response, result, processed_text, session_state, disk, output, status,
                 progress, calls, exit_code>>

\* the model / the subprocess finishes or raises; "finally" removes the file
transcribe_audio_tmp ==
  /\ app \in TempFileApps
  /\ pc = "t_tmp"
  /\ tmpFiles' = tmpFiles \ {temp_path}
  /\ \/ /\ Return("transcribe", "fail")
        /\ shown' = shown \cup {"Error: transcribe"}
        /\ UNCHANGED transcript
     \/ /\ \E t \in Texts : transcript' = t
        /\ Return("transcribe", "ok")
        /\ shown' = IF Truthy(transcript') \/ app = "transcribe_app"
                      THEN shown \cup {"Transcription"} ELSE shown
  /\ pc' = "finished"
  /\ UNCHANGED <<app, workers, tab2, aux, GEMINI_API_KEY, configured, audio_files, flow, runs, task,
                 target_language, audio_path, temp_path, nextTmp, remote_file, remoteFiles,
                 response, result, processed_text, session_state, disk, output, status,
                 progress, calls, exit_code>>


\* ------------------------------------------------------------------------
\* progress_hook(d) of the fetchers: yt-dlp calls it with a progress event
\* while the download runs; it passes a value to progress_bar.progress
\* ------------------------------------------------------------------------
MaxBytes == 4
\* the bar takes values 0.0 .. 1.0, kept here in hundredths
FullBar == 100
\* "percent * 0.3": the share of the bar the gemini apps give to the download
DownloadShare == 30

HookApps == StreamlitGemini \cup {"youtube_transcribe_app", "simple_download_app"}
ProgressAllot == IF app \in StreamlitGemini THEN DownloadShare ELSE FullBar

\* the events yt-dlp can deliver: 0 stands for a missing or None field;
\* a known total_bytes is never below downloaded_bytes, an estimate can be
ProgressEvents ==
  {d \in [status : {"downloading", "finished"}, total_bytes : 0..MaxBytes,
          total_bytes_estimate : 0..MaxBytes, downloaded_bytes : 0..MaxBytes] :
     /\ d.total_bytes > 0 => d.downloaded_bytes <= d.total_bytes
     \* the estimate is read only when total_bytes is missing
     /\ d.total_bytes > 0 => d.total_bytes_estimate = 0
     /\ d.status = "finished" => (d.total_bytes = d.downloaded_bytes /\ d.total_bytes > 0)}

\* d.get('total_bytes') or d.get('total_bytes_estimate', 0)
hook_total(d) == IF d.total_bytes # 0 THEN d.total_bytes ELSE d.total_bytes_estimate

\* percent = downloaded / total; progress_bar.progress(percent * share)
hook_value(d) ==
  IF d.status = "finished" THEN ProgressAllot
  ELSE (d.downloaded_bytes * ProgressAllot) \div hook_total(d)

progress_hook(d) ==
  /\ app \in HookApps
  /\ pc = "fetch"
  /\ IF d.status = "downloading" /\ hook_total(d) = 0
       THEN /\ status' = "Downloading..."
            /\ UNCHANGED <<call, progress, shown, rets, pc>>
       ELSE /\ call' = [fn |-> "progress", value |-> hook_value(d)]
            /\ IF hook_value(d) \in 0..FullBar
                 THEN /\ progress' = hook_value(d)
                      /\ status' = IF d.status = "finished" THEN "Download complete!"
                                                            ELSE "Downloading: %"
                      /\ UNCHANGED <<shown, rets, pc>>
                 \* progress_bar.progress rejects a value above 1.0: the
                 \* exception ends the download and main() reports it
                 ELSE main_fetch_error
  /\ UNCHANGED <<app, workers, tab2, fetchers, GEMINI_API_KEY, configured, audio_files, flow, runs, task,
                 target_language, audio_path, temp_path, tmpFiles, nextTmp, remote_file,
                 remoteFiles, response, transcript, result, processed_text, session_state,
                 disk, output, calls, exit_code>>


\* ------------------------------------------------------------------------
\* The prompt of process_with_gemini / process_with_claude, as the sequence
\* of the pieces of the f-string followed by the characters of the text
\* ------------------------------------------------------------------------
NamedTasks == {"summarize", "translate", "analyze"}
PromptTasks == NamedTasks \cup {"rewrite", "explain"}
PromptLanguages == {"English", "Thai", "Japanese"}

\* the translate branch built like the generic one ("in" for "to")
build_prompt_translate_in(t, language, text) ==
  (CASE t = "summarize" ->
          <<"Please ", "provide a concise summary of", " the following transcript",
            " in ", language, ":\n\n">>
     [] t = "analyze" ->
          <<"Please ", "analyze the key points and themes in",
            " the following transcript", " in ", language, ":\n\n">>
     [] OTHER ->
          <<"Please ", t, " the following transcript", " in ", language, ":\n\n">>)
  \o text

build_prompt(t, language, text) ==
  (CASE t = "summarize" ->
          <<"Please ", "provide a concise summary of", " the following transcript",
            " in ", language, ":\n\n">>
     [] t = "translate" ->
          <<"Please ", "translate", " the following transcript", " to ", language,
            ":\n\n">>
     [] t = "analyze" ->
          <<"Please ", "analyze the key points and themes in",
            " the following transcript", " in ", language, ":\n\n">>
     [] OTHER ->
          <<"Please ", t, " the following transcript", " in ", language, ":\n\n">>)
  \o text

\* the processing function called with (text, task, target_language)
apply_build_prompt(t, l, x) ==
  /\ app \in StreamlitGemini
  /\ call' = [fn |-> "build_prompt", task |-> t, target_language |-> l, text |-> x,
              prompt |-> build_prompt(t, l, x)]
  /\ UNCHANGED <<app, workers, tab2, fetchers, GEMINI_API_KEY, configured, audio_files, pc, flow, runs,
                 task, target_language, audio_path, temp_path, tmpFiles, nextTmp,
                 remote_file, remoteFiles, response, transcript, result, processed_text,
                 session_state, disk, output, shown, status, progress, calls, rets,
                 exit_code>>

InitPrompt == Init /\ app \in StreamlitGemini /\ GEMINI_API_KEY

NextPrompt ==
  \E t \in PromptTasks, l \in PromptLanguages, x \in Outs : apply_build_prompt(t, l, x)

SpecPrompt == InitPrompt /\ [][NextPrompt]_vars


\* ------------------------------------------------------------------------
\* transcribe_full.py: process_with_claude has timeout=30 and a bare except;
\* main() saves the analysis or prints "Claude CLI not available"
\* ------------------------------------------------------------------------
tf_process_with_claude ==
  /\ app = "transcribe_full"
  /\ pc = "process"
  /\ \E r \in CliTimeoutOutcomes :
       /\ process_returns(r, yta_summarize_value(r), "none")
       /\ UNCHANGED disk

tf_main_after_process ==
  /\ app = "transcribe_full"
  /\ pc = "p_ret"
  /\ IF Truthy(processed_text)
       THEN /\ disk' = [disk EXCEPT !.summary_file = processed_text]
            /\ shown' = shown \cup {"Summary"}
       ELSE /\ shown' = shown \cup {"Claude CLI not available"}
            /\ UNCHANGED disk
  /\ exit_code' = 0
  /\ pc' = "exited"
  /\ UNCHANGED <<app, workers, tab2, aux, GEMINI_API_KEY, configured, audio_files, flow, runs, task,
                 target_language, audio_path, temp_path, tmpFiles, nextTmp, remote_file,
                 remoteFiles, response, transcript, result, processed_text, session_state,
                 output, status, progress, calls, rets>>

\* subprocess.run without a timeout argument waits for the tool for ever
NoTimeoutApps == {"gemini_claude_app", "transcribe_with_gemini", "local_transcribe",
                  "transcribe_and_summarize"}

tool_never_responds ==
  /\ app \in NoTimeoutApps
  /\ pc = "process"
  /\ pc' = "hung"
  /\ result' = Outcome("hang")
  /\ UNCHANGED <<app, workers, tab2, aux, GEMINI_API_KEY, configured, audio_files, flow, runs, task,
                 target_language, audio_path, temp_path, tmpFiles, nextTmp, remote_file,
                 remoteFiles, response, transcript, processed_text, session_state, disk,
                 output, shown, status, progress, calls, rets, exit_code>>


\* ------------------------------------------------------------------------
\* Concurrent invocations of a fetcher (two browser sessions of one app):
\* each computes its output path when it starts and writes there until the
\* download is over
\* ------------------------------------------------------------------------
MaxFetchers == 2
MaxSeconds == 2
Titles == {"t1", "t2"}
FetcherPrograms == {"simple_transcribe_app", "gemini_app"}

\* simple_transcribe_app: downloads/audio_<int(time.time())>.mp3;
\* gemini_app: outtmpl downloads/%(title)s.%(ext)s
output_path(program, title, ext, now) ==
  IF program = "simple_transcribe_app"
    THEN [stem |-> <<"audio_", now>>, ext |-> "mp3"]
    ELSE [stem |-> <<title>>, ext |-> ext]

\* the extension yt-dlp picks is fixed by the video
TitleExt(title) == IF title = "t1" THEN "webm" ELSE "m4a"

\* an invocation starts at second now: time does not run backwards
fetcher_start(program, title, now) ==
  /\ Len(fetchers) < MaxFetchers
  /\ \A i \in 1..Len(fetchers) :
        fetchers[i].program = program /\ fetchers[i].started <= now
  /\ fetchers' = Append(fetchers,
                   [program |-> program, title |-> title, started |-> now,
                    path |-> output_path(program, title, TitleExt(title), now),
                    state |-> "writing"])
  /\ UNCHANGED <<app, workers, tab2, call, GEMINI_API_KEY, configured, audio_files, pc, flow, runs,
                 task, target_language, audio_path, temp_path, tmpFiles, nextTmp,
                 remote_file, remoteFiles, response, transcript, result, processed_text,
                 session_state, disk, output, shown, status, progress, calls, rets,
                 exit_code>>

\* the download of invocation i is over
fetcher_finish(i) ==
  /\ i \in 1..Len(fetchers)
  /\ fetchers[i].state = "writing"
  /\ fetchers' = [fetchers EXCEPT ![i].state = "done"]
  /\ UNCHANGED <<app, workers, tab2, call, GEMINI_API_KEY, configured, audio_files, pc, flow, runs,
                 task, target_language, audio_path, temp_path, tmpFiles, nextTmp,
                 remote_file, remoteFiles, response, transcript, result, processed_text,
                 session_state, disk, output, shown, status, progress, calls, rets,
                 exit_code>>

NextFetchers ==
  \/ \E program \in FetcherPrograms, title \in Titles, now \in 0..MaxSeconds :
       fetcher_start(program, title, now)
  \/ \E i \in 1..MaxFetchers : fetcher_finish(i)

InitFetchers == Init /\ app = "gemini_app" /\ GEMINI_API_KEY

SpecFetchers == InitFetchers /\ [][NextFetchers]_vars


\* ------------------------------------------------------------------------
\* transcribe_audio / transcribe_file of the scripts that collect the
\* segments of faster-whisper themselves, applied to a segment sequence
\* ------------------------------------------------------------------------
MaxJoin == 3
JoinApps == {"quick_transcribe", "transcribe_full", "transcribe_and_summarize",
             "youtube_transcribe_app"}
\* segment texts as the model emits them, surrounding blanks included
JoinSegments == UNION {[1..n -> Outs] : n \in 0..MaxJoin}

apply_transcribe_audio(segs) ==
  /\ app \in JoinApps
  /\ call' = [fn |-> "transcribe_audio", segs |-> segs,
              value |-> transcribe_audio_value(app, segs)]
  /\ UNCHANGED <<app, workers, tab2, fetchers, GEMINI_API_KEY, configured, audio_files, pc, flow, runs,
                 task, target_language, audio_path, temp_path, tmpFiles, nextTmp,
                 remote_file, remoteFiles, response, transcript, result, processed_text,
                 session_state, disk, output, shown, status, progress, calls, rets,
                 exit_code>>

InitJoin == Init /\ app \in JoinApps

NextJoin == \E segs \in JoinSegments : apply_transcribe_audio(segs)

SpecJoin == InitJoin /\ [][NextJoin]_vars


\* ------------------------------------------------------------------------
\* The call sites that hand the transcript to the text-processing backend:
\* the command-line variants cut it with text[:N], the remote-API variant
\* interpolates it whole
\* ------------------------------------------------------------------------
QuickLimit == 4000
FullLimit == 3000
YtaLimit == 2500
\* the "--- PREVIEW ---" the two scripts print
QuickPreview == 300
FullPreview == 500
\* how far around each limit the transcript lengths are taken
Spread == 2

TruncApps == {"quick_transcribe", "transcribe_full", "youtube_transcribe_app", "gemini_app"}
TranscriptLengths ==
  {0, 1} \cup {n + k : n \in {QuickLimit, FullLimit, YtaLimit, QuickPreview, FullPreview}, k \in (0 - Spread)..Spread}
SpokenLanguages == {"en", "th"}

\* a transcript of n characters
LongText(n) == [i \in 1..n |-> IF i % 2 = 1 THEN "a" ELSE " "]

\* the last n characters instead of the first
python_slice_last(text, n) ==
  SubSeq(text, IF Len(text) < n THEN 1 ELSE Len(text) - n + 1, Len(text))

\* text[:n]
python_slice_to(text, n) == SubSeq(text, 1, IF Len(text) < n THEN Len(text) ELSE n)

\* the f-string before the transcript: one piece in the command-line
\* variants (two wordings, by detected language), six in build_prompt
PromptHead(a, language) ==
  CASE a = "quick_transcribe" -> <<"Summarize this transcription in 3-5 key points:\n\n">>
    [] a = "gemini_app" -> SubSeq(build_prompt("summarize", "English", <<>>), 1, 6)
    [] OTHER -> IF language # "en"
                  THEN <<"This is a transcription in {language} language. Please: ...">>
                  ELSE <<"Please analyze this transcription and provide: ...">>

backend_prompt(a, language, text) ==
  CASE a = "quick_transcribe" -> PromptHead(a, language) \o python_slice_to(text, QuickLimit)
    [] a = "transcribe_full" -> PromptHead(a, language) \o python_slice_to(text, FullLimit)
    [] a = "youtube_transcribe_app" ->
         PromptHead(a, language) \o python_slice_to(text, YtaLimit)
    [] OTHER -> build_prompt("summarize", "English", text)

\* transcription[:k] + "..." if len(transcription) > k else transcription
preview(text, k) == IF Len(text) > k THEN python_slice_to(text, k) \o <<"...">> ELSE text

\* what the user is shown of the transcript: the preview of the scripts,
\* the text area of the Streamlit apps
displayed_transcript(a, text) ==
  CASE a = "quick_transcribe" -> preview(text, QuickPreview)
    [] a = "transcribe_full" -> preview(text, FullPreview)
    [] OTHER -> text

\* main(): the transcript is written to its file and shown, then the prompt
\* is built from it
send_transcript(n, language) ==
  /\ app \in TruncApps
  /\ call' = [fn |-> "send_transcript", text |-> LongText(n), language |-> language,
              saved |-> LongText(n),
              displayed |-> displayed_transcript(app, LongText(n)),
              prompt |-> backend_prompt(app, language, LongText(n))]
  /\ UNCHANGED <<app, workers, tab2, fetchers, GEMINI_API_KEY, configured, audio_files, pc, flow, runs,
                 task, target_language, audio_path, temp_path, tmpFiles, nextTmp,
                 remote_file, remoteFiles, response, transcript, result, processed_text,
                 session_state, disk, output, shown, status, progress, calls, rets,
                 exit_code>>

InitTruncate == Init /\ app \in TruncApps /\ key_check

NextTruncate ==
  \E n \in TranscriptLengths, language \in SpokenLanguages : send_transcript(n, language)

SpecTruncate == InitTruncate /\ [][NextTruncate]_vars


\* ------------------------------------------------------------------------
\* get_mime_type(audio_path) of gemini_app, gemini_claude_app and
\* transcribe_with_gemini (the same text in the three files)
\* ------------------------------------------------------------------------
\* extensions of the paths tried, as os.path.splitext gives them
PathExts == {".mp3", ".MP3", ".wav", ".m4a", ".M4A", ".aac", ".flac", ".ogg", ".Ogg",
             ".webm", ".txt", ""}
Mime(major, minor) == [major |-> major, minor |-> minor]
\* guess_type found nothing (None)
NoGuess == Mime("none", "none")
\* what mimetypes.guess_type can answer: nothing, or a type of the
\* platform's table
Guesses == {NoGuess, Mime("audio", "mpeg"), Mime("audio", "x-wav"), Mime("audio", "mp4a-latm"),
            Mime("video", "webm"), Mime("text", "plain")}

\* str.lower() on the extensions above
Lower(ext) ==
  CASE ext = ".MP3" -> ".mp3"
    [] ext = ".M4A" -> ".m4a"
    [] ext = ".Ogg" -> ".ogg"
    [] OTHER -> ext

mime_map ==
  [e \in {".mp3", ".wav", ".m4a", ".aac", ".flac", ".ogg"} |->
     CASE e = ".mp3" -> Mime("audio", "mpeg")
       [] e = ".wav" -> Mime("audio", "wav")
       [] e = ".m4a" -> Mime("audio", "mp4")
       [] e = ".aac" -> Mime("audio", "aac")
       [] e = ".flac" -> Mime("audio", "flac")
       [] e = ".ogg" -> Mime("audio", "ogg")]

\* the table looked up without .lower()
get_mime_type_case_sensitive(ext, guess) ==
  IF guess # NoGuess /\ guess.major = "audio"
    THEN guess
    ELSE IF ext \in DOMAIN mime_map THEN mime_map[ext] ELSE Mime("audio", "wav")

get_mime_type(ext, guess) ==
  IF guess # NoGuess /\ guess.major = "audio"
    THEN guess
    ELSE IF Lower(ext) \in DOMAIN mime_map
           THEN mime_map[Lower(ext)]
           ELSE Mime("audio", "wav")

apply_get_mime_type(ext, guess) ==
  /\ app \in GeminiVariants
  /\ call' = [fn |-> "get_mime_type", ext |-> ext, guess |-> guess,
              value |-> get_mime_type(ext, guess)]
  /\ UNCHANGED <<app, workers, tab2, fetchers, GEMINI_API_KEY, configured, audio_files, pc, flow, runs,
                 task, target_language, audio_path, temp_path, tmpFiles, nextTmp,
                 remote_file, remoteFiles, response, transcript, result, processed_text,
                 session_state, disk, output, shown, status, progress, calls, rets,
                 exit_code>>

InitMime == Init /\ app \in GeminiVariants /\ GEMINI_API_KEY

NextMime == \E ext \in PathExts, guess \in Guesses : apply_get_mime_type(ext, guess)

SpecMime == InitMime /\ [][NextMime]_vars


\* ------------------------------------------------------------------------
\* youtube_transcribe_app, tab "Previous Files": a "Transcribe" button per
\* listed file stores the file in the session and reruns; the block under
\* "if 'transcribe_file' in st.session_state" reads the key, deletes it and
\* shows "Start Transcription". These executions change nothing the count
\* of executions bounds, so they are not counted in runs.
\* ------------------------------------------------------------------------
\* the files the tab lists: f.endswith(('.m4a', '.mp3', '.webm'))
ListedFiles == audio_files \cap {"m4a", "mp3", "webm"}

\* st.button("Transcribe", key=...) clicked: store the file, st.rerun()
prev_click_transcribe(file) ==
  /\ app = "youtube_transcribe_app"
  /\ pc = "idle"
  /\ file \in ListedFiles
  /\ transcribe_file' = file
  /\ start_button' = FALSE
  /\ flow' = "previous_select"
  /\ pc' = "rerun"
  /\ UNCHANGED <<app, workers, aux, GEMINI_API_KEY, configured, audio_files, runs, task,
                 target_language, audio_path, temp_path, tmpFiles, nextTmp, remote_file,
                 remoteFiles, response, transcript, result, processed_text, session_state,
                 disk, output, shown, status, progress, calls, rets, exit_code>>

\* tab 2 of one execution: the pending block when the key is in the session.
\* clicked says whether "Start Transcription" triggered this execution
prev_tab(clicked) ==
  IF transcribe_file # "none"
    THEN /\ transcribe_file' = "none"                 \* del st.session_state[...]
         /\ shown' = shown \cup {"Transcribing: file"}
         /\ IF clicked
              THEN /\ audio_path' = transcribe_file
                   /\ pc' = "t_local"
                   /\ Call("transcribe")
                   /\ start_button' = FALSE
              ELSE /\ start_button' = TRUE
                   /\ pc' = "finished"
                   /\ UNCHANGED <<audio_path, calls>>
    ELSE /\ start_button' = FALSE
         /\ pc' = "finished"
         /\ UNCHANGED <<transcribe_file, shown, audio_path, calls>>

\* the execution started by st.rerun()
prev_rerun ==
  /\ app = "youtube_transcribe_app"
  /\ pc = "rerun"
  /\ prev_tab(FALSE)
  /\ UNCHANGED <<app, workers, aux, GEMINI_API_KEY, configured, audio_files, flow, runs, task,
                 target_language, temp_path, tmpFiles, nextTmp, remote_file,
                 remoteFiles, response, transcript, result, processed_text, session_state,
                 disk, output, status, progress, rets, exit_code>>

\* the user clicks "Start Transcription": a new execution of the script
prev_click_start ==
  /\ app = "youtube_transcribe_app"
  /\ pc = "idle"
  /\ start_button
  /\ flow' = "previous_start"
  /\ prev_tab(TRUE)
  /\ UNCHANGED <<app, workers, aux, GEMINI_API_KEY, configured, audio_files, runs, task,
                 target_language, temp_path, tmpFiles, nextTmp, remote_file,
                 remoteFiles, response, transcript, result, processed_text, session_state,
                 disk, output, status, progress, rets, exit_code>>


\* ------------------------------------------------------------------------
\* local_transcribe.process_with_claude run by several processes in one
\* working directory: each writes temp_transcription.txt, runs the tool,
\* and in "finally" tests os.path.exists and then calls os.remove
\* ------------------------------------------------------------------------
ToolRuns == {"ok", "error", "notfound"}

\* with open(temp_file, 'w') as f: f.write(text)
pwc_write(i) ==
  /\ workers[i].at = "start"
  /\ disk' = [disk EXCEPT !.temp_transcription = TRUE]
  /\ workers' = [workers EXCEPT ![i].at = "running"]
  /\ UNCHANGED <<app, tab2, aux, GEMINI_API_KEY, configured, audio_files, pc, flow, runs,
                 task, target_language, audio_path, temp_path, tmpFiles, nextTmp,
                 remote_file, remoteFiles, response, transcript, result, processed_text,
                 session_state, output, shown, status, progress, calls, rets, exit_code>>

\* subprocess.run(..., check=True) returns, raises CalledProcessError
\* (caught) or FileNotFoundError (not caught); "finally" comes next
pwc_run(i, tool) ==
  /\ workers[i].at = "running"
  /\ workers' = [workers EXCEPT ![i] = [at |-> "finally", tool |-> tool]]
  /\ UNCHANGED disk
  /\ UNCHANGED <<app, tab2, aux, GEMINI_API_KEY, configured, audio_files, pc, flow, runs,
                 task, target_language, audio_path, temp_path, tmpFiles, nextTmp,
                 remote_file, remoteFiles, response, transcript, result, processed_text,
                 session_state, output, shown, status, progress, calls, rets, exit_code>>

\* if os.path.exists(temp_file):
pwc_exists(i) ==
  /\ workers[i].at = "finally"
  /\ workers' = [workers EXCEPT ![i].at = IF disk.temp_transcription THEN "remove"
                                                                     ELSE "done"]
  /\ UNCHANGED disk
  /\ UNCHANGED <<app, tab2, aux, GEMINI_API_KEY, configured, audio_files, pc, flow, runs,
                 task, target_language, audio_path, temp_path, tmpFiles, nextTmp,
                 remote_file, remoteFiles, response, transcript, result, processed_text,
                 session_state, output, shown, status, progress, calls, rets, exit_code>>

\* os.remove(temp_file): FileNotFoundError when the file is gone
pwc_remove(i) ==
  /\ workers[i].at = "remove"
  /\ IF disk.temp_transcription
       THEN /\ disk' = [disk EXCEPT !.temp_transcription = FALSE]
            /\ workers' = [workers EXCEPT ![i].at = "done"]
       ELSE /\ workers' = [workers EXCEPT ![i].at = "raised"]
            /\ UNCHANGED disk
  /\ UNCHANGED <<app, tab2, aux, GEMINI_API_KEY, configured, audio_files, pc, flow, runs,
                 task, target_language, audio_path, temp_path, tmpFiles, nextTmp,
                 remote_file, remoteFiles, response, transcript, result, processed_text,
                 session_state, output, shown, status, progress, calls, rets, exit_code>>

InitWorkers == Init /\ app = "local_transcribe" /\ GEMINI_API_KEY

NextWorkers ==
  \/ \E i \in 1..MaxWorkers : pwc_write(i)
  \/ \E i \in 1..MaxWorkers, tool \in ToolRuns : pwc_run(i, tool)
  \/ \E i \in 1..MaxWorkers : pwc_exists(i)
  \/ \E i \in 1..MaxWorkers : pwc_remove(i)

SpecWorkers == InitWorkers /\ [][NextWorkers]_vars

Next ==
  \/ startup_stop
  \/ \E uploaded \in BOOLEAN, url \in BOOLEAN,
        btn \in {"none", "upload_process", "youtube_process"},
        d \in Directives : main_rerun(uploaded, url, btn, d)
  \/ transcribe_with_gemini
  \/ download_audio
  \/ main_after_transcribe
  \/ process_with_gemini
  \/ process_with_claude
  \/ main_store
  \/ \E exists \in BOOLEAN, d \in Directives : cli_start(exists, d)
  \/ twg_main_after_transcribe
  \/ twg_summarize_with_claude
  \/ twg_main_output
  \/ \E url \in BOOLEAN, auto \in BOOLEAN, btn \in BOOLEAN : yta_main_rerun(url, auto, btn)
  \/ transcribe_audio
  \/ main_save_transcript
  \/ yta_summarize_with_claude
  \/ lt_process_with_claude
  \/ tas_summarize_with_claude
  \/ yta_main_after_process
  \/ cli_main_end
  \/ quick_main_summarize
  \/ \E file \in Exts : prev_click_transcribe(file)
  \/ prev_rerun
  \/ prev_click_start
  \/ tf_process_with_claude
  \/ tf_main_after_process
  \/ tool_never_responds
  \/ sda_download_audio
  \/ \E d \in ProgressEvents : progress_hook(d)
  \/ \E url \in BOOLEAN, btn \in BOOLEAN : download_main_rerun(url, btn)
  \/ ta_download_audio
  \/ \E uploaded \in BOOLEAN, btn \in BOOLEAN : twc_main_rerun(uploaded, btn)
  \/ transcribe_audio_tmp
  \/ end_run

Spec == Init /\ [][Next]_vars

\* ========================================================================
\* Properties
\* ========================================================================
InProgress(s) == calls[s] > 0 /\ rets[s] = "none"
FetchFlows == {"youtube", "youtube_auto", "youtube_only"}
RunEnded == pc \in {"finished", "exited", "crashed"}

\* C1: in a run with a fetch stage the stages start in the order fetch,
\* transcribe, process: transcription is started only after the download
\* returned successfully, processing only after transcription returned, and
\* at most one stage is in progress at any time.
C1_StageOrder ==
  /\ flow \in FetchFlows =>
       /\ calls["transcribe"] > 0 => rets["fetch"] = "ok"
       /\ calls["process"] > 0 => calls["transcribe"] > 0 /\ rets["transcribe"] # "none"
  /\ Cardinality({s \in Stages : InProgress(s)}) <= 1

C1_Witness ==
  /\ flow = "youtube"
  /\ pc = "process"
  /\ InProgress("process")
  /\ rets["fetch"] = "ok"
  /\ rets["transcribe"] = "ok"

\* C2: when the fetch stage fails, the run ends with the error shown,
\* transcription and processing are never invoked, and neither the session
\* state nor any result file changes.
C2_FetchFailureIsFatal ==
  /\ [](rets["fetch"] = "fail" =>
          /\ pc = "finished"
          /\ calls["transcribe"] = 0
          /\ calls["process"] = 0
          /\ "Error: fetch" \in shown)
  /\ [][(rets["fetch"] = "fail" \/ rets'["fetch"] = "fail") =>
          /\ session_state' = session_state
          /\ disk' = disk]_vars

C2_Witness ==
  /\ rets["fetch"] = "fail"
  /\ pc = "finished"
  /\ Truthy(session_state.transcript)

\* C3: when transcription fails (raises or returns None) or, in the Gemini
\* variants, returns an empty transcript, the text-processing stage is never
\* invoked in that run and no processed text is produced or stored.
NoTranscript ==
  \/ rets["transcribe"] = "fail"
  \/ app \in GeminiVariants /\ rets["transcribe"] = "ok" /\ ~Truthy(transcript)

C4_PartialResultReported ==
  (RunEnded /\ rets["fetch"] = "ok" /\ rets["transcribe"] = "fail") =>
     /\ shown \cap {"Downloaded: title", "Processed: title"} # {}
     /\ shown \cap {"Error transcribing with Gemini", "Failed to transcribe audio",
                    "Error: transcribe"} # {}

\* C5: a blank (empty or whitespace-only) transcription result is never
\* accepted: not stored, not written to a transcript file, not passed on to
\* the text-processing stage.
C5_BlankTranscriptRejected ==
  /\ (rets["transcribe"] = "ok" /\ Blank(transcript)) => calls["process"] = 0
  /\ ~Blank(session_state.transcript)
  /\ ~Blank(disk.transcript_file)
  /\ ~Blank(output.transcript)

\* C6: in the Gemini variants a failure of the text-processing stage
\* (exception, non-zero exit status, empty response) never aborts the run,
\* and the result of the finished run holds the transcript exactly as the
\* transcription stage returned it.
ProcessingFailed(r) ==
  \/ r.kind \in {"api_error", "notfound", "timeout"}
  \/ r.kind = "exit" /\ r.rc # 0
  \/ r.kind \in {"exit", "api_text"} /\ r.out = <<>>

C6_ProcessingFailureKeepsTranscript ==
  (app \in GeminiVariants /\ ProcessingFailed(result)) =>
     /\ pc \in {"p_ret", "finished", "exited"}
     /\ pc = "finished" => session_state.transcript = transcript
     /\ pc = "exited" => exit_code = 0 /\ output.transcript = transcript

C6_Witness ==
  /\ app = "gemini_claude_app"
  /\ pc = "finished"
  /\ result.kind = "notfound"
  /\ Truthy(transcript)
  /\ session_state.transcript = transcript

\* C7: in local_transcribe and transcribe_and_summarize, when the tool's
\* executable cannot be started the run does not abort and the raw
\* transcript is saved to its _transcript.txt file.
C7_ToolUnavailableDegrades ==
  (app \in {"local_transcribe", "transcribe_and_summarize"} /\ result.kind = "notfound") =>
     /\ pc # "crashed"
     /\ RunEnded => exit_code = 0 /\ disk.transcript_file = transcript

\* C8: transcribe_with_gemini.py (fallback policy): after a successful
\* transcription the output holds the transcript and a non-empty processed
\* section, which is the tool's stripped standard output when the tool exited
\* 0 with output that is non-empty once stripped, and the transcript
\* otherwise.  gemini_app / gemini_claude_app (omit policy): after a failed
\* processing call the stored processed_text is None, never the transcript.
ToolGaveText(r) == r.kind = "exit" /\ r.rc = 0 /\ Strip(r.out) # <<>>

C8_FallbackAndOmitPolicy ==
  /\ (app = "transcribe_with_gemini" /\ pc = "exited" /\ Truthy(transcript)) =>
        /\ output.transcript = transcript
        /\ output.processed \notin {None, <<>>}
        /\ output.processed = IF ToolGaveText(result) THEN Strip(result.out)
                                                      ELSE transcript
  /\ (app \in StreamlitGemini /\ pc = "finished" /\ rets["process"] = "fail") =>
        /\ session_state.processed_text = None
        /\ session_state.processed_text # session_state.transcript
        /\ session_state.transcript = transcript

C8_Witness ==
  /\ app = "transcribe_with_gemini"
  /\ pc = "exited"
  /\ result.kind = "exit"
  /\ result.rc = 1
  /\ Truthy(transcript)
  /\ output.processed = transcript

\* C9: every file uploaded to the remote service by transcribe_with_gemini
\* has been deleted from it when the function has returned.
C9_RemoteFileDeleted ==
  pc \notin {"t_generate", "t_delete"} => remoteFiles = {}

\* C10: between script executions of gemini_app / gemini_claude_app no
\* temporary copy of the uploaded audio remains on disk.
C10_NoTempFileRemains ==
  (app \in StreamlitGemini /\ pc \in {"idle", "finished"}) => tmpFiles = {}

\* C20: when the API key is absent the program stops at startup with a
\* message: the remote client is never configured, no file is uploaded and
\* no pipeline stage is run.
C20_NoKeyStopsAtStartup ==
  (app \in GeminiVariants /\ ~GEMINI_API_KEY) =>
     /\ ~configured
     /\ remoteFiles = {}
     /\ tmpFiles = {}
     /\ \A s \in Stages : calls[s] = 0
     /\ pc \in {"idle", "start", "finished", "exited"}
     /\ pc \in {"finished", "exited"} => "GEMINI_API_KEY not found" \in shown
     /\ pc = "exited" => exit_code = 1

C20_Witness ==
  /\ app = "gemini_app"
  /\ ~GEMINI_API_KEY
  /\ runs = MaxRuns
  /\ pc = "finished"
  /\ "GEMINI_API_KEY not found" \in shown
  /\ ~configured

\* C11: whenever a fetcher returns a path normally, the file at that path
\* exists when control is back in the caller.
PathFetchers == StreamlitGemini \cup {"youtube_transcribe_app", "simple_download_app"}

C11_ReturnedPathExists ==
  (app \in PathFetchers /\ rets["fetch"] = "ok") => audio_path \in audio_files

\* C12: the audio file handed to a transcription call exists for the whole
\* call, and a temporary copy is deleted only once the transcription call of
\* its run has returned or raised.
HandedFileExists ==
  CASE app \in StreamlitGemini /\ flow = "upload" -> temp_path \in tmpFiles
    [] app \in StreamlitGemini /\ flow = "youtube" -> audio_path \in audio_files
    [] app = "youtube_transcribe_app" -> audio_path \in audio_files
    [] app \in TempFileApps -> temp_path \in tmpFiles
    [] OTHER -> TRUE

C12_AudioExistsWhileTranscribing ==
  /\ [](InProgress("transcribe") => HandedFileExists)
  /\ [][(tmpFiles' # tmpFiles /\ tmpFiles' \subseteq tmpFiles) =>
          (rets["transcribe"] # "none" \/ rets'["transcribe"] # "none")]_vars

C12_Witness ==
  /\ app = "transcribe_app"
  /\ pc = "t_tmp"
  /\ InProgress("transcribe")
  /\ temp_path \in tmpFiles

\* C13: every value a progress hook passes to the progress bar lies between
\* 0 and the share of the bar given to the download (0.3 in the gemini
\* apps, 1.0 in the download-only apps), for any downloaded count and any
\* total or estimated total.
C13_HookValueInRange ==
  call.fn = "progress" => call.value \in 0..ProgressAllot

\* C14: the prompt is fixed by (task, target_language, text): summarize,
\* translate and analyze give three pairwise distinct prompts, any other task
\* is put as the verb of the generic template, and the translate prompt
\* holds "translate the following transcript to <target_language>" followed
\* by the whole unmodified transcript.
C14_PromptTemplates ==
  call.fn = "build_prompt" =>
    LET p == call.prompt
        l == call.target_language
        x == call.text
    IN /\ call.task = "translate" =>
            /\ SubSeq(p, 2, 5) = <<"translate", " the following transcript", " to ", l>>
            /\ SubSeq(p, 7, Len(p)) = x
       /\ call.task \notin NamedTasks =>
            p = <<"Please ", call.task, " the following transcript", " in ", l, ":\n\n">> \o x
       /\ \A t1 \in NamedTasks, t2 \in NamedTasks :
            t1 # t2 => build_prompt(t1, l, x) # build_prompt(t2, l, x)
       /\ \A t \in PromptTasks : \A l2 \in PromptLanguages : \A x2 \in Outs :
            build_prompt(t, l2, x2) = build_prompt(t, l, x) => (l2 = l /\ x2 = x)

C14_Witness ==
  /\ call.fn = "build_prompt"
  /\ call.task = "translate"
  /\ call.target_language = "Thai"
  /\ call.text = <<" ", "a", " ">>

\* messages that say the tool is missing, and messages that carry its stderr
NotInstalledMessages == {"Claude CLI not available", "Claude CLI not found"}
StderrMessages == {"Error with Claude CLI", "Claude CLI error"}
ToolApps == {"gemini_claude_app", "youtube_transcribe_app"} \cup CliScripts

\* C15: when the tool never responds, processing ends with a timeout
\* failure: the run goes on to its end with the transcript kept, and the
\* timeout is reported as such, not as a missing tool or a failed exit.
C15_TimeoutReportedAsTimeout ==
  /\ pc # "hung"
  /\ (app \in ToolApps /\ result.kind = "timeout" /\ RunEnded) =>
        /\ "Claude took too long to respond" \in shown
        /\ shown \cap (NotInstalledMessages \cup StderrMessages) = {}
        /\ disk.transcript_file = transcript

\* C16: when the tool exits with a non-zero status the processing function
\* returns no processed text and the tool's stderr is shown to the user; the
\* standard output of the failed invocation is not kept.
C16_NonZeroExitSurfacesStderr ==
  (app \in ToolApps /\ result.kind = "exit" /\ result.rc # 0 /\ RunEnded) =>
     /\ processed_text \in {None, transcript}
     /\ disk.summary_file = EmptyDisk.summary_file
     /\ shown \cap StderrMessages # {}

\* C17: every failure of a stage gives a message that names the stage and
\* the actual cause: a message saying the tool is not installed is shown
\* only when the tool could not be started, and a failed tool call is never
\* passed over in silence.
C17_FailureReportedWithItsCause ==
  (app \in ToolApps /\ RunEnded) =>
     /\ shown \cap NotInstalledMessages # {} => result.kind = "notfound"
     /\ (rets["process"] = "fail") =>
           shown \cap (NotInstalledMessages \cup StderrMessages
                        \cup {"Claude took too long to respond", "Error running Claude CLI",
                              "Traceback"}) # {}

\* C19: a script given an audio file that does not exist exits with status 1
\* before any model is loaded, and a run whose transcription succeeded ends
\* with status 0.
C19_ExitStatus ==
  app \in CliScripts =>
     /\ "Error: file not found" \in shown =>
           (pc = "exited" /\ exit_code = 1 /\ calls["transcribe"] = 0)
     /\ (RunEnded /\ rets["transcribe"] = "ok" /\ Truthy(transcript)) => exit_code = 0

\* C18: two invocations that run at the same time never write the audio
\* they fetch to the same path, whether they start in the same second or
\* fetch videos of the same title.
C18_ConcurrentFetchersUseDistinctPaths ==
  \A i \in 1..Len(fetchers), j \in 1..Len(fetchers) :
     (i # j /\ fetchers[i].state = "writing" /\ fetchers[j].state = "writing") =>
        fetchers[i].path # fetchers[j].path

\* C21: a run is single-attempt: each of the fetch, transcription and
\* text-processing stages is invoked at most once in a run, and a stage is
\* invoked only when it has not been invoked, so a failed one is not retried.
C21_SingleAttempt ==
  /\ [](\A s \in Stages : calls[s] <= 1)
  /\ [][\A s \in Stages :
          calls'[s] > calls[s] => (calls[s] = 0 /\ rets[s] = "none")]_vars

C21_Witness ==
  /\ app = "gemini_claude_app"
  /\ flow = "youtube"
  /\ calls["fetch"] = 1
  /\ calls["transcribe"] = 1
  /\ rets["transcribe"] = "fail"
  /\ pc = "finished"

\* C22: the transcript of the local model is the texts of all the emitted
\* segments, in emission order, joined with exactly one space between two
\* texts and nothing before the first or after the last, for every segment
\* sequence, the empty one included.
C22_TranscriptIsJoinedSegments ==
  call.fn = "transcribe_audio" => call.value = JoinSpace(call.segs)

\* C23: in the fetchers that keep the downloaded format, a file written
\* under another extension than the declared one is found and its path is
\* returned; the fetcher fails only when no audio file was written.
C23_WrittenFileIsReturned ==
  [][(app \in StreamlitGemini \cup {"youtube_transcribe_app"}
        /\ audio_files' # audio_files) =>
       (rets'["fetch"] = "ok" /\ audio_path' \in audio_files' \ audio_files)]_vars

\* C24: at the truncating call sites the transcript part of the prompt is
\* the first N characters of the transcript (4000, 3000, 2500), the whole
\* transcript when it is shorter; the saved transcript is always complete,
\* and the remote-API variant sends the complete transcript.
PromptLimit ==
  CASE app = "quick_transcribe" -> QuickLimit
    [] app = "transcribe_full" -> FullLimit
    [] app = "youtube_transcribe_app" -> YtaLimit
    [] OTHER -> -1

PromptPartIsPrefix ==
  LET head == Len(PromptHead(app, call.language))
      part == SubSeq(call.prompt, head + 1, Len(call.prompt))
      n == Len(call.text)
  IN /\ Len(part) = IF PromptLimit >= 0 /\ n > PromptLimit THEN PromptLimit ELSE n
     /\ \A i \in 1..Len(part) : part[i] = call.text[i]

\* C24 as stated: the prompt holds the first N characters, and the transcript
\* saved and the transcript shown to the user are the complete transcript.
C24_ShownTranscriptComplete ==
  call.fn = "send_transcript" =>
     /\ PromptPartIsPrefix
     /\ call.saved = call.text
     /\ call.displayed = call.text

\* C24 (amended): as above for the prompt and the saved transcript; the
\* transcript shown is complete in the Streamlit apps, while quick_transcribe
\* and transcribe_full print a preview: the whole transcript up to 300 / 500
\* characters, else that many first characters and "...".
C24_PromptTruncation ==
  call.fn = "send_transcript" =>
     /\ PromptPartIsPrefix
     /\ call.saved = call.text
     /\ LET k == CASE app = "quick_transcribe" -> QuickPreview
                   [] app = "transcribe_full" -> FullPreview
                   [] OTHER -> Len(call.text)
        IN IF Len(call.text) <= k
             THEN call.displayed = call.text
             ELSE /\ Len(call.displayed) = k + 1
                  /\ call.displayed[k + 1] = "..."
                  /\ \A i \in 1..k : call.displayed[i] = call.text[i]

C24_Witness ==
  /\ call.fn = "send_transcript"
  /\ app = "youtube_transcribe_app"
  /\ Len(call.text) = YtaLimit + 1
  /\ Len(call.prompt) = YtaLimit + 1

\* C25: get_mime_type gives an audio type for every path: the guessed type
\* when that is an audio type, else the table entry of the lower-cased
\* extension, else audio/wav; the result depends on the path and the guess
\* only, so the three programs agree.
TableAnswer(ext) ==
  CASE ext \in {".mp3", ".MP3"} -> Mime("audio", "mpeg")
    [] ext = ".wav" -> Mime("audio", "wav")
    [] ext \in {".m4a", ".M4A"} -> Mime("audio", "mp4")
    [] ext = ".aac" -> Mime("audio", "aac")
    [] ext = ".flac" -> Mime("audio", "flac")
    [] ext \in {".ogg", ".Ogg"} -> Mime("audio", "ogg")
    [] OTHER -> Mime("audio", "wav")

C25_MimeTypeIsAudio ==
  call.fn = "get_mime_type" =>
     /\ call.value.major = "audio"
     /\ call.value = IF call.guess # NoGuess /\ call.guess.major = "audio"
                       THEN call.guess
                       ELSE TableAnswer(call.ext)

C25_Witness ==
  /\ call.fn = "get_mime_type"
  /\ app = "transcribe_with_gemini"
  /\ call.ext = ".M4A"
  /\ call.guess = Mime("video", "webm")
  /\ call.value = Mime("audio", "mp4")

\* C26: transcribe_app.transcribe_audio and
\* transcribe_with_claude.transcribe_and_process remove the temporary audio
\* file they created on every exit path: once the call has returned or
\* raised, the file does not exist.
C26_TempAudioRemoved ==
  (app \in TempFileApps /\ rets["transcribe"] # "none") =>
     (temp_path # 0 /\ temp_path \notin tmpFiles /\ tmpFiles = {})

C26_Witness ==
  /\ app = "transcribe_with_claude"
  /\ rets["transcribe"] = "fail"
  /\ temp_path = 2
  /\ tmpFiles = {}

\* C27: in the "Previous Files" tab, the execution started by the click on
\* "Start Transcription" still has the file chosen with "Transcribe" and
\* starts to transcribe it.
C27_StartTranscribesPendingFile ==
  [][(app = "youtube_transcribe_app" /\ flow # "previous_start"
        /\ flow' = "previous_start") =>
       (pc' = "t_local" /\ calls'["transcribe"] = 1 /\ audio_path' \in ListedFiles)]_vars

\* C28: in gemini_app / gemini_claude_app the stored transcript, processed
\* text, task, target language and file name are written only together and
\* only after a successful transcription, all from the run that writes
\* them; any other step leaves them as they were, and whenever a non-empty
\* transcript is stored the other fields are set.
C28_StoredFieldsWrittenTogether ==
  /\ [](app \in StreamlitGemini /\ Truthy(session_state.transcript) =>
          /\ session_state.task # "none"
          /\ session_state.target_language # "none"
          /\ session_state.filename # "none")
  /\ [][(app \in StreamlitGemini /\ session_state' # session_state) =>
          /\ rets["transcribe"] = "ok"
          /\ Truthy(transcript)
          /\ session_state'.transcript = transcript
          /\ session_state'.processed_text = processed_text
          /\ session_state'.task = task
          /\ session_state'.target_language = target_language
          /\ session_state'.filename = flow]_vars

C28_Witness ==
  /\ app = "gemini_app"
  /\ runs = 2
  /\ Truthy(session_state.transcript)
  /\ session_state.task = "summarize"
  /\ task = "translate"
  /\ rets["transcribe"] = "fail"
  /\ pc = "finished"

\* C29: two invocations of local_transcribe.process_with_claude in one
\* working directory do not disturb each other through
\* temp_transcription.txt: none removes the file while the other has written
\* it and not yet cleaned up, no cleanup raises, and the file is gone once
\* both have finished.
Outstanding(j) == workers[j].at \in {"running", "finally", "remove"}

C29_TempTranscriptionNotShared ==
  /\ [](\A i \in 1..MaxWorkers : workers[i].at # "raised")
  /\ []((\A i \in 1..MaxWorkers : workers[i].at = "done") => ~disk.temp_transcription)
  /\ [][\A i \in 1..MaxWorkers :
          (workers[i].at = "remove" /\ workers'[i].at = "done") =>
             \A j \in 1..MaxWorkers \ {i} : ~Outstanding(j)]_vars

\* C30: within a run of gemini_app / gemini_claude_app the values sent to
\* the progress bar never decrease: the values of the download stay at or
\* below the 60% set when transcription starts, the later values only grow,
\* and 100% is reached exactly when transcription returned a transcript.
C30_ProgressNeverDecreases ==
  /\ []((app \in StreamlitGemini /\ pc = "fetch") => progress <= 60)
  /\ []((app \in StreamlitGemini /\ pc = "finished") =>
          (progress = 100 <=> (rets["transcribe"] = "ok" /\ Truthy(transcript))))
  /\ [][(app \in StreamlitGemini /\ pc # "finished") => progress' >= progress]_vars

====
